---- MODULE Spec2Model ----
(***************************************************************************)
(* Model of generate_audio.py: the crowd synthesizer (create_crowd_audio), *)
(* the crowd mixer (mix_agree_disagree_crowds), the per-issue pipeline     *)
(* (generate_audio_for_issue) and the batch driver (main).                 *)
(*                                                                         *)
(* An AudioSegment is a sequence of signed 16-bit samples, one per         *)
(* millisecond: len() of a segment is its duration in milliseconds, the    *)
(* unit all of the program's length arithmetic uses.  Sample arithmetic    *)
(* is the one of the audioop primitives AudioSegment is built on: add      *)
(* saturates to the sample width, mul multiplies by a factor, rounds       *)
(* towards minus infinity and saturates.  Gains are kept as fixed-point    *)
(* amplitude factors.                                                      *)
(***************************************************************************)
EXTENDS Integers, Sequences, FiniteSets, TLC

\* ---------------------------------------------------------------- bounds

\* Records in the CSV file.
MaxRecords == 2
\* Largest num_copies of a direct call of create_crowd_audio.
MaxVirtualSize == 2601
\* Percentages are enumerated in steps of 1/PctDen.
PctDen == 4
\* Longest segment of a direct call of mix_agree_disagree_crowds.
MaxMixLen == 2

\* ------------------------------------------------------- program constants

NUM_VOICES == 100
\* variation_ms as create_crowd_audio passes it to add_slight_variation.
CrowdVariationMs == 30
\* "Cap at 50 layers for performance".
LayerCap == 50
\* headroom=1.0 dB below full scale, as twice the sample amplitude:
\* 2 * 32768 * 10^(-1/20) = 58409.02..
TargetPeakX2 == 58409

SampleMax == 2 ^ 15 - 1
SampleMin == 0 - 2 ^ 15

\* ------------------------------------------------------------ arithmetic

Min(a, b) == IF a < b THEN a ELSE b
Max(a, b) == IF a > b THEN a ELSE b
Abs(x) == IF x < 0 THEN 0 - x ELSE x

RECURSIVE SqrtBetween(_, _, _)
\* The largest r in lo..hi with r * r <= n, given lo * lo <= n.
SqrtBetween(n, lo, hi) ==
    IF lo >= hi THEN lo
    ELSE LET mid == (lo + hi + 1) \div 2
         IN  IF mid * mid <= n THEN SqrtBetween(n, mid, hi)
             ELSE SqrtBetween(n, lo, mid - 1)

\* int(n ** 0.5) for n >= 0 (the float square root is exact to the integer
\* part in this range).
ISqrt(n) == SqrtBetween(n, 0, Min(n, 46340))

\* ---------------------------------------------------------- AudioSegment

\* AudioSegment.silent(duration=d)
Silent(d) == [i \in 1..d |-> 0]

\* audioop's saturation to the 16-bit sample range.
Clip(x) == IF x > SampleMax THEN SampleMax ELSE IF x < SampleMin THEN SampleMin ELSE x

\* seg1.overlay(seg2): the result keeps seg1's length, seg2 is cut to it,
\* and the overlapping samples are added with saturation (audioop.add).
Overlay(seg1, seg2) ==
    [i \in 1..Len(seg1) |->
        IF i <= Len(seg2) THEN Clip(seg1[i] + seg2[i]) ELSE seg1[i]]

\* seg.apply_gain(dB) with db_to_float(dB) = num / den: audioop.mul, which
\* rounds each product towards minus infinity (floor) and then saturates, so
\* that -32768 * 0.89125 = -29204.5 becomes -29205 and 32767 * 0.89125 =
\* 29203.6 becomes 29203.
ApplyGain(seg, num, den) ==
    [i \in 1..Len(seg) |-> Clip((seg[i] * num) \div den)]

RECURSIVE PeakFrom(_, _)
PeakFrom(seg, i) ==
    IF i > Len(seg) THEN 0 ELSE Max(Abs(seg[i]), PeakFrom(seg, i + 1))

\* seg.max: the largest absolute sample value (audioop.max).
Peak(seg) == PeakFrom(seg, 1)

\* seg.max_dBFS > -1, i.e. seg.max / 32768 > 10^(-1/20).
AboveHeadroom(seg) == 2 * Peak(seg) > TargetPeakX2

\* seg.normalize(headroom=1.0): the gain target_peak / seg.max applied to
\* every sample; a silent segment is returned as it is.
Normalize(seg) ==
    IF Peak(seg) = 0 THEN seg ELSE ApplyGain(seg, TargetPeakX2, 2 * Peak(seg))

\* ------------------------------------------------------ crowd synthesizer

\* The outcomes of random.randint(0, variation_ms) that are enumerated: the
\* smallest and the largest padding.
Draws(variation_ms) == {0, variation_ms}

\* add_slight_variation with the drawn padding.
add_slight_variation(audio, padding) == Silent(padding) \o audio

\* Mutant: the layer count without its cap.
NumLayersUncapped(n) == ISqrt(n)

\* num_layers = min(int(num_copies ** 0.5), 50)
NumLayers(n) == Min(ISqrt(n), LayerCap)

\* db_to_float(10 * log10(n)) = sqrt(n), in hundredths.
CrowdGainCenti(n) == ISqrt(n * 10000)

\* db_to_float(-(3 * log10(L))) = L^(-3/20), in thousandths, for L in 1..50.
LayerAttenuationMilli(L) ==
    << 1000, 901, 848, 812, 785, 764, 746, 732, 719, 707,
        697, 688, 680, 673, 666, 659, 653, 648, 642, 638,
        633, 628, 624, 620, 617, 613, 609, 606, 603, 600,
        597, 594, 591, 589, 586, 584, 581, 579, 577, 575,
        572, 570, 568, 566, 564, 563, 561, 559, 557, 556 >>[L]


\* ------------------------------------------------------------- the state

VARIABLES
    \* main
    data,            \* the rows load_csv_data returned
    index,           \* enumerate's index of the row being processed
    success_count,
    pc,              \* the statement control is at
    outputs,         \* the paths export was called with, in call order
    returned,        \* what generate_audio_for_issue returned, per row
    tts_failed,      \* the indices of the rows generate_tts failed for
    \* generate_audio_for_issue
    counts,          \* [sci|pub][agree|disagree]: the *_count locals
    base,            \* [agree|disagree]: agree_base, disagree_base
    pop,             \* the block being run: "sci" or "pub"
    stance,          \* the stance the block is at
    crowd,           \* [agree|disagree]: the segment exported for the stance
    for_mix,         \* [agree|disagree]: *_agree_for_mix, *_disagree_for_mix
    both,            \* sci_both, pub_both
    synth_calls,     \* the calls of create_crowd_audio made for this row
    \* create_crowd_audio
    base_audio, num_copies, add_variation,
    num_layers, db_increase, result,
    layer,           \* the loop variable of "for _ in range(1, num_layers)"
    overlays,        \* how many copies the loop has overlaid
    ret              \* where the call returns to

mainVars == << data, index, success_count, outputs, returned, tts_failed >>
issueVars == << counts, base, pop, stance, crowd, for_mix, both, synth_calls >>
crowdVars == << base_audio, num_copies, add_variation, num_layers,
                db_increase, result, layer, overlays, ret >>
vars == << mainVars, pc, issueVars, crowdVars >>

Stances == {"agree", "disagree"}
NoAudio == << >>
NoPair == [st \in Stances |-> NoAudio]
NoCounts == [p \in {"sci", "pub"} |-> [st \in Stances |-> 0]]

\* ---------------------------------------------------------------- inputs

\* A numeric CSV field holds the percentage num / PctDen; float() raises
\* ValueError on any other field.
Field(num) == [numeric |-> TRUE, num |-> num]
Malformed == [numeric |-> FALSE, num |-> 0]
Pct(p) == Field(p * PctDen)

Row(sci, pub) == [scientific_consensus |-> sci, public_agreement |-> pub]

\* The rows the batch runs are built from.
Rows ==
    { Row(Pct(97), Pct(50)), Row(Pct(0), Pct(99)),
      Row(Malformed, Pct(50)), Row(Pct(100), Malformed) }

\* What the text-to-speech service may return for an utterance.
Utterances == { << 12000 >>, << 0 - 30000, 0 >> }

\* ------------------------------------------------------------ voice counts

\* Python's round() of the exact quotient a / b: ties go to the even integer.
RoundHalfEven(a, b) ==
    LET q == a \div b
        r == a % b
    IN  IF 2 * r < b THEN q
        ELSE IF 2 * r > b THEN q + 1
        ELSE IF q % 2 = 0 THEN q ELSE q + 1

\* Mutant: the two counts truncated independently of each other.
VoiceCountsIndependent(field) ==
    [agree |-> (NUM_VOICES * field.num) \div (100 * PctDen),
     disagree |-> (NUM_VOICES * (100 * PctDen - field.num)) \div (100 * PctDen)]

\* agree = round(NUM_VOICES * pct / 100); disagree = NUM_VOICES - agree
VoiceCounts(field) ==
    LET agree == RoundHalfEven(NUM_VOICES * field.num, 100 * PctDen)
    IN  [agree |-> agree, disagree |-> NUM_VOICES - agree]

\* --------------------------------------------------------- output paths

RECURSIVE Digits(_)
Digits(n) == IF n < 10 THEN << n >> ELSE Append(Digits(n \div 10), n % 10)

\* f"{index:02d}"
ZeroPad2(i) == IF i < 10 THEN << 0, i >> ELSE Digits(i)

\* Mutant: the path without the row's index.
PathWithoutIndex(i, p, suffix) == [index |-> << 0, 0 >>, pop |-> p, suffix |-> suffix]

\* f"{AUDIO_DIR}/{index:02d}_{pop}_{suffix}.mp3"
Path(i, p, suffix) == [index |-> ZeroPad2(i), pop |-> p, suffix |-> suffix]


\* --------------------------------------------------- create_crowd_audio

\* No call of create_crowd_audio is in progress or waiting to be consumed.
FrameGone ==
    /\ base_audio = NoAudio
    /\ num_copies = 0
    /\ add_variation = FALSE
    /\ num_layers = 0
    /\ db_increase = 0
    /\ result = NoAudio
    /\ layer = 1
    /\ overlays = 0
    /\ ret = "none"

\* The caller has taken the returned segment.
PopFrame ==
    /\ base_audio' = NoAudio
    /\ num_copies' = 0
    /\ add_variation' = FALSE
    /\ num_layers' = 0
    /\ db_increase' = 0
    /\ result' = NoAudio
    /\ layer' = 1
    /\ overlays' = 0
    /\ ret' = "none"

\* Mutant: the silence of an empty crowd is as long as a jittered copy.
CallCrowdJitteredSilence(b, n, variation, padding, to) ==
    LET first == IF variation THEN add_slight_variation(b, padding) ELSE b
    IN  /\ base_audio' = b
        /\ num_copies' = n
        /\ add_variation' = variation
        /\ ret' = to
        /\ layer' = 1
        /\ overlays' = 0
        /\ IF n = 0
           THEN /\ result' = Silent(Len(first))
                /\ num_layers' = 0
                /\ db_increase' = 0
                /\ pc' = to
           ELSE IF n = 1
           THEN /\ result' = first
                /\ num_layers' = 0
                /\ db_increase' = 0
                /\ pc' = to
           ELSE /\ result' = first
                /\ num_layers' = NumLayers(n)
                /\ db_increase' = CrowdGainCenti(n)
                /\ pc' = "layer"

\* A call of create_crowd_audio(b, n, variation) that returns to `to`, up to
\* the loop: the two early returns, or num_layers, db_increase and the first
\* copy.  `padding` is the draw of the first add_slight_variation.
CallCrowd(b, n, variation, padding, to) ==
    LET first == IF variation THEN add_slight_variation(b, padding) ELSE b
    IN  /\ base_audio' = b
        /\ num_copies' = n
        /\ add_variation' = variation
        /\ ret' = to
        /\ layer' = 1
        /\ overlays' = 0
        /\ IF n = 0
           THEN /\ result' = Silent(Len(b))
                /\ num_layers' = 0
                /\ db_increase' = 0
                /\ pc' = to
           ELSE IF n = 1
           THEN /\ result' = first
                /\ num_layers' = 0
                /\ db_increase' = 0
                /\ pc' = to
           ELSE /\ result' = first
                /\ num_layers' = NumLayers(n)
                /\ db_increase' = CrowdGainCenti(n)
                /\ pc' = "layer"

\* One pass of "for _ in range(1, num_layers)": a fresh copy, attenuated by
\* 3 * log10(num_layers) dB, is overlaid onto result.
CrowdLayer ==
    /\ pc = "layer"
    /\ layer < num_layers
    /\ \E padding \in Draws(CrowdVariationMs) :
          LET copy == IF add_variation
                      THEN add_slight_variation(base_audio, padding)
                      ELSE base_audio
              quieter == ApplyGain(copy, LayerAttenuationMilli(num_layers), 1000)
          IN  result' = Overlay(result, quieter)
    /\ layer' = layer + 1
    /\ overlays' = overlays + 1
    /\ UNCHANGED << mainVars, pc, issueVars, base_audio, num_copies,
                    add_variation, num_layers, db_increase, ret >>

\* The loop is over: result + db_increase is returned.
CrowdReturn ==
    /\ pc = "layer"
    /\ layer >= num_layers
    /\ result' = ApplyGain(result, db_increase, 100)
    /\ pc' = ret
    /\ UNCHANGED << mainVars, issueVars, base_audio, num_copies, add_variation,
                    num_layers, db_increase, layer, overlays, ret >>

\* ------------------------------------------------ mix_agree_disagree_crowds

\* audio + AudioSegment.silent(max_length - len(audio)) when it is shorter.
PadTo(audio, max_length) ==
    IF Len(audio) < max_length
    THEN audio \o Silent(max_length - Len(audio))
    ELSE audio

\* Mutant: the overlay returned without the clipping guard.
MixWithoutNormalize(agree_audio, disagree_audio) ==
    LET max_length == Max(Len(agree_audio), Len(disagree_audio))
    IN  Overlay(PadTo(agree_audio, max_length), PadTo(disagree_audio, max_length))

\* Mutant: the overlay of the two segments as they come, without padding.
MixWithoutPadding(agree_audio, disagree_audio) ==
    LET mixed == Overlay(agree_audio, disagree_audio)
    IN  IF AboveHeadroom(mixed) THEN Normalize(mixed) ELSE mixed

mix_agree_disagree_crowds(agree_audio, disagree_audio) ==
    LET max_length == Max(Len(agree_audio), Len(disagree_audio))
        mixed == Overlay(PadTo(agree_audio, max_length),
                         PadTo(disagree_audio, max_length))
    IN  IF AboveHeadroom(mixed) THEN Normalize(mixed) ELSE mixed

\* ------------------------------------------------ generate_audio_for_issue

Export(p, suffix) == outputs' = Append(outputs, Path(index, p, suffix))

\* generate_audio_for_issue returns value v to main's loop, which counts a
\* True and goes on to the next row.
ReturnToMain(v) ==
    /\ returned' = Append(returned, v)
    /\ success_count' = IF v THEN success_count + 1 ELSE success_count
    /\ index' = index + 1
    /\ pc' = "main"

\* main's loop calls generate_audio_for_issue(issue, index): the two float()
\* conversions and the voice counts.  A ValueError of float() is caught
\* nowhere: it leaves generate_audio_for_issue and main.
IssueStart ==
    /\ pc = "main"
    /\ index < Len(data)
    /\ LET issue_data == data[index + 1]
       IN  IF issue_data.scientific_consensus.numeric
              /\ issue_data.public_agreement.numeric
           THEN /\ counts' = [sci |-> VoiceCounts(issue_data.scientific_consensus),
                              pub |-> VoiceCounts(issue_data.public_agreement)]
                /\ pc' = "tts_agree"
           ELSE /\ counts' = counts
                /\ pc' = "aborted"
    /\ base' = NoPair
    /\ crowd' = NoPair
    /\ for_mix' = NoPair
    /\ both' = NoAudio
    /\ synth_calls' = << >>
    /\ UNCHANGED << mainVars, pop, stance, crowdVars >>

\* generate_tts for the agree utterance, and the segment from_mp3 will load.
TtsAgree ==
    /\ pc = "tts_agree"
    /\ \E ok \in BOOLEAN, audio \in Utterances :
          IF ok
          THEN /\ base' = [base EXCEPT !.agree = audio]
               /\ pc' = "tts_disagree"
               /\ UNCHANGED mainVars
          ELSE /\ ReturnToMain(FALSE)
               /\ tts_failed' = tts_failed \cup {index}
               /\ UNCHANGED << base, data, outputs >>
    /\ UNCHANGED << counts, pop, stance, crowd, for_mix, both, synth_calls,
                    crowdVars >>

\* Mutant: the result of generate_tts for the disagree utterance is ignored.
TtsDisagreeIgnored ==
    /\ pc = "tts_disagree"
    /\ \E ok \in BOOLEAN, audio \in Utterances :
          /\ base' = [base EXCEPT !.disagree = audio]
          /\ tts_failed' = IF ok THEN tts_failed ELSE tts_failed \cup {index}
    /\ pc' = "crowd"
    /\ pop' = "sci"
    /\ stance' = "agree"
    /\ UNCHANGED << data, index, success_count, outputs, returned, counts,
                    crowd, for_mix, both, synth_calls, crowdVars >>

\* generate_tts for the disagree utterance; then the scientific block starts.
TtsDisagree ==
    /\ pc = "tts_disagree"
    /\ \E ok \in BOOLEAN, audio \in Utterances :
          IF ok
          THEN /\ base' = [base EXCEPT !.disagree = audio]
               /\ pc' = "crowd"
               /\ pop' = "sci"
               /\ stance' = "agree"
               /\ UNCHANGED mainVars
          ELSE /\ ReturnToMain(FALSE)
               /\ tts_failed' = tts_failed \cup {index}
               /\ UNCHANGED << base, data, outputs, pop, stance >>
    /\ UNCHANGED << counts, crowd, for_mix, both, synth_calls, crowdVars >>

\* After a stance's export: the other stance, then the segments for the mix.
AfterExport ==
    IF stance = "agree"
    THEN pc' = "crowd" /\ stance' = "disagree"
    ELSE pc' = "for_mix" /\ stance' = "agree"

\* "Just agree" / "Just disagree": with a count above 0 the crowd is
\* synthesized (and exported by CrowdExport); with a count of 0 a silent
\* segment of the base's length is exported.
CrowdStep ==
    /\ pc = "crowd"
    /\ IF counts[pop][stance] > 0
       THEN /\ \E padding \in Draws(CrowdVariationMs) :
                  CallCrowd(base[stance], counts[pop][stance], TRUE, padding,
                            "export")
            /\ synth_calls' = Append(synth_calls,
                                     << stance, counts[pop][stance] >>)
            /\ UNCHANGED << outputs, crowd, stance >>
       ELSE /\ crowd' = [crowd EXCEPT ![stance] = Silent(Len(base[stance]))]
            /\ Export(pop, stance)
            /\ AfterExport
            /\ UNCHANGED << synth_calls, crowdVars >>
    /\ UNCHANGED << data, index, success_count, returned, tts_failed,
                    counts, base, pop, for_mix, both >>

\* The synthesized crowd is bound to *_crowd and exported; the call's frame
\* is gone.
CrowdExport ==
    /\ pc = "export"
    /\ crowd' = [crowd EXCEPT ![stance] = result]
    /\ Export(pop, stance)
    /\ AfterExport
    /\ PopFrame
    /\ UNCHANGED << data, index, success_count, returned, tts_failed,
                    counts, base, pop, for_mix, both, synth_calls >>

\* After a stance's segment for the mix: the other stance, then the mix.
AfterForMix ==
    IF stance = "agree"
    THEN pc' = "for_mix" /\ stance' = "disagree"
    ELSE pc' = "mix" /\ stance' = stance

\* Mutant: the mix takes the segment that was exported.
ForMixReusesExported ==
    /\ pc = "for_mix"
    /\ for_mix' = [for_mix EXCEPT ![stance] = crowd[stance]]
    /\ AfterForMix
    /\ UNCHANGED << mainVars, counts, base, pop, crowd, both, synth_calls,
                    crowdVars >>

\* "Both together": *_for_mix = create_crowd_audio(...) if count > 0 else
\* AudioSegment.silent(duration=len(base)).
ForMixStep ==
    /\ pc = "for_mix"
    /\ IF counts[pop][stance] > 0
       THEN /\ \E padding \in Draws(CrowdVariationMs) :
                  CallCrowd(base[stance], counts[pop][stance], TRUE, padding,
                            "for_mix_set")
            /\ synth_calls' = Append(synth_calls,
                                     << stance, counts[pop][stance] >>)
            /\ UNCHANGED << for_mix, stance >>
       ELSE /\ for_mix' = [for_mix EXCEPT ![stance] = Silent(Len(base[stance]))]
            /\ AfterForMix
            /\ UNCHANGED << synth_calls, crowdVars >>
    /\ UNCHANGED << mainVars, counts, base, pop, crowd, both >>

\* The synthesized crowd is bound to *_for_mix; the call's frame is gone.
ForMixSet ==
    /\ pc = "for_mix_set"
    /\ for_mix' = [for_mix EXCEPT ![stance] = result]
    /\ AfterForMix
    /\ PopFrame
    /\ UNCHANGED << mainVars, counts, base, pop, crowd, both, synth_calls >>

\* *_both = mix_agree_disagree_crowds(*_agree_for_mix, *_disagree_for_mix)
MixStep ==
    /\ pc = "mix"
    /\ both' = mix_agree_disagree_crowds(for_mix.agree, for_mix.disagree)
    /\ pc' = "export_both"
    /\ UNCHANGED << mainVars, counts, base, pop, stance, crowd, for_mix,
                    synth_calls, crowdVars >>

\* *_both is exported; then the public block, or "return True".  The block's
\* segments are not used again.
BothExport ==
    /\ pc = "export_both"
    /\ Export(pop, "both")
    /\ crowd' = NoPair
    /\ for_mix' = NoPair
    /\ both' = NoAudio
    /\ IF pop = "sci"
       THEN /\ pop' = "pub"
            /\ stance' = "agree"
            /\ pc' = "crowd"
            /\ UNCHANGED << index, success_count, returned >>
       ELSE /\ ReturnToMain(TRUE)
            /\ UNCHANGED << pop, stance >>
    /\ UNCHANGED << data, tts_failed, counts, base, synth_calls, crowdVars >>

\* ------------------------------------------------------------------ main

\* The loop is over: "Generation complete: success_count/len(data)".
MainReport ==
    /\ pc = "main"
    /\ index = Len(data)
    /\ pc' = "done"
    /\ UNCHANGED << mainVars, issueVars, crowdVars >>

RowSeqs == UNION { [1..n -> Rows] : n \in 1..MaxRecords }

IdleIssue ==
    /\ counts = NoCounts
    /\ base = NoPair
    /\ pop = "sci"
    /\ stance = "agree"
    /\ crowd = NoPair
    /\ for_mix = NoPair
    /\ both = NoAudio
    /\ synth_calls = << >>

IdleMain ==
    /\ index = 0
    /\ success_count = 0
    /\ outputs = << >>
    /\ returned = << >>
    /\ tts_failed = {}

\* main() after load_csv_data.
Init ==
    /\ data \in RowSeqs
    /\ IdleMain
    /\ pc = "main"
    /\ IdleIssue
    /\ FrameGone

Next ==
    \/ IssueStart
    \/ TtsAgree
    \/ TtsDisagree
    \/ CrowdStep
    \/ CrowdExport
    \/ ForMixStep
    \/ ForMixSet
    \/ MixStep
    \/ BothExport
    \/ CrowdLayer
    \/ CrowdReturn
    \/ MainReport

Spec == Init /\ [][Next]_vars

\* ----------------------------------------------------------- direct calls

\* A call create_crowd_audio(base_audio, num_copies, add_variation) from
\* outside the pipeline, with the arguments Init chose.
SynthCall ==
    /\ pc = "call_crowd"
    /\ \E padding \in Draws(CrowdVariationMs) :
          CallCrowd(base_audio, num_copies, add_variation, padding, "returned")
    /\ UNCHANGED << mainVars, issueVars >>

\* The base segments of the direct calls.
CallBases == { << 30000 >> }

InitSynth ==
    /\ data = << >>
    /\ IdleMain
    /\ pc = "call_crowd"
    /\ IdleIssue
    /\ base_audio \in CallBases
    /\ num_copies \in 0..MaxVirtualSize
    /\ add_variation \in BOOLEAN
    /\ num_layers = 0
    /\ db_increase = 0
    /\ result = NoAudio
    /\ layer = 1
    /\ overlays = 0
    /\ ret = "none"

NextSynth == SynthCall \/ CrowdLayer \/ CrowdReturn

\* The synthesizer called directly.
SpecSynth == InitSynth /\ [][NextSynth]_vars

\* The synthesizer as the pipeline calls it and as called directly.
SpecCrowd == (Init \/ InitSynth) /\ [][Next \/ SynthCall]_vars


\* Samples at and around full scale and the -1 dBFS threshold.
MixSamples == { SampleMin, 0 - 29205, 0, 1, 15000, 29205, SampleMax }

MixBuffers == UNION { [1..n -> MixSamples] : n \in 0..MaxMixLen }

\* A call mix_agree_disagree_crowds(for_mix.agree, for_mix.disagree) from
\* outside the pipeline, with the arguments Init chose.
MixCall ==
    /\ pc = "call_mix"
    /\ both' = mix_agree_disagree_crowds(for_mix.agree, for_mix.disagree)
    /\ pc' = "returned"
    /\ UNCHANGED << mainVars, counts, base, pop, stance, crowd, for_mix,
                    synth_calls, crowdVars >>

InitMix ==
    /\ data = << >>
    /\ IdleMain
    /\ pc = "call_mix"
    /\ counts = NoCounts
    /\ base = NoPair
    /\ pop = "sci"
    /\ stance = "agree"
    /\ crowd = NoPair
    /\ for_mix \in [Stances -> MixBuffers]
    /\ both = NoAudio
    /\ synth_calls = << >>
    /\ FrameGone

SpecMix == InitMix /\ [][MixCall]_vars

\* generate_audio_for_issue called on one row with any two percentages.
InitCounts ==
    /\ \E sci \in 0..(100 * PctDen) :
          data = << Row(Field(sci), Field(100 * PctDen - sci)) >>
    /\ IdleMain
    /\ pc = "main"
    /\ IdleIssue
    /\ FrameGone

SpecCounts == InitCounts /\ [][IssueStart]_vars


\* ---------------------------------------------------------------- claims

Pops == {"sci", "pub"}
Suffixes == {"agree", "disagree", "both"}

\* C1: for every percentage in [0,100], of the scientific and of the public
\* population, agree + disagree is exactly NUM_VOICES, both counts lie in
\* 0..NUM_VOICES, and agree is an integer nearest to NUM_VOICES * pct / 100.
C1_CountsSumToTotal ==
    pc = "tts_agree" =>
        \A p \in Pops :
            LET field == IF p = "sci" THEN data[1].scientific_consensus
                         ELSE data[1].public_agreement
                agree == counts[p].agree
                disagree == counts[p].disagree
            IN  /\ agree + disagree = NUM_VOICES
                /\ agree \in 0..NUM_VOICES
                /\ disagree \in 0..NUM_VOICES
                /\ 2 * Abs(agree * 100 * PctDen - NUM_VOICES * field.num)
                       <= 100 * PctDen

\* A percentage halfway between two counts (12.5 %) has been rounded, to the
\* even count.
C1_Witness ==
    /\ pc = "tts_agree"
    /\ 2 * data[1].scientific_consensus.num = 25 * PctDen
    /\ counts.sci.agree = 12
    /\ counts.sci.disagree = 88

\* C2: for num_copies > 1 the layer count is min(floor(sqrt(num_copies)), 50):
\* at most 50, not below the layer count of num_copies - 1, 2 for 4 copies,
\* 10 for 100, 50 for 2500; and the loop overlays exactly num_layers - 1
\* copies onto the first one.
C2_LayerCount ==
    (pc \in {"layer", "returned", "export", "for_mix_set"} /\ num_copies > 1) =>
        /\ num_layers >= 1
        /\ num_layers <= 50
        /\ num_layers * num_layers <= num_copies
        /\ num_layers < 50 => (num_layers + 1) * (num_layers + 1) > num_copies
        /\ num_copies > 2 => NumLayers(num_copies - 1) <= num_layers
        /\ num_copies = 4 => num_layers = 2
        /\ num_copies = 100 => num_layers = 10
        /\ num_copies = 2500 => num_layers = 50
        /\ overlays = layer - 1
        /\ overlays <= num_layers - 1
        /\ pc # "layer" => overlays = num_layers - 1

\* A jittered crowd of 2500 has returned with 49 copies overlaid.
C2_Witness ==
    /\ pc = "returned"
    /\ num_copies = 2500
    /\ add_variation
    /\ num_layers = 50
    /\ overlays = 49

\* The overlay mix_agree_disagree_crowds normalizes.
Overlaid == Overlay(PadTo(for_mix.agree, Max(Len(for_mix.agree), Len(for_mix.disagree))),
                    PadTo(for_mix.disagree, Max(Len(for_mix.agree), Len(for_mix.disagree))))

\* C3 as claimed: the segment mix returns never peaks above -1 dBFS.
C3_PeakAtMostMinus1dBFS ==
    pc = "returned" => ~AboveHeadroom(both)

\* C3 as amended: the segment mix returns peaks at most one 16-bit step above
\* -1 dBFS (29205 of 32768), a peak above -1 dBFS only on a negative sample
\* of a normalized segment; an overlay that peaks at or below -1 dBFS is
\* returned unmodified.
C3_PeakWithinOneStep ==
    pc = "returned" =>
        /\ Peak(both) <= 29205
        /\ \A i \in 1..Len(both) : both[i] <= 29204
        /\ AboveHeadroom(both) => AboveHeadroom(Overlaid)
        /\ ~AboveHeadroom(Overlaid) => both = Overlaid

\* Two full-scale negative segments were mixed and normalized: the peak is
\* -29205.
C3_Witness ==
    /\ pc = "returned"
    /\ for_mix.agree = << SampleMin, 1 >>
    /\ for_mix.disagree = << SampleMin >>
    /\ both = << 0 - 29205, 0 >>

\* C4: the segment mix returns is as long as the longer of its two inputs.
C4_MixDuration ==
    pc = "returned" =>
        Len(both) = Max(Len(for_mix.agree), Len(for_mix.disagree))

\* The first segment was the shorter one, and the mix was normalized.
C4_Witness ==
    /\ pc = "returned"
    /\ Len(for_mix.agree) = 1
    /\ Len(for_mix.disagree) = 2
    /\ Len(both) = 2
    /\ both # Overlaid

IsSilenceOf(audio, b) ==
    /\ Len(audio) = Len(b)
    /\ \A i \in 1..Len(audio) : audio[i] = 0

\* C5: create_crowd_audio with num_copies = 0 returns, with and without
\* variation, a segment as long as the base whose samples are all zero; and
\* what the pipeline exports and mixes for a stance with a count of 0 is
\* silence as long as that stance's base utterance.
C5_EmptyCrowdIsSilence ==
    /\ (pc = "returned" /\ num_copies = 0) => IsSilenceOf(result, base_audio)
    /\ \A st \in Stances :
          (pc \in {"crowd", "export", "for_mix", "for_mix_set", "mix", "export_both"}
             /\ counts[pop][st] = 0) =>
              /\ crowd[st] # NoAudio => IsSilenceOf(crowd[st], base[st])
              /\ for_mix[st] # NoAudio => IsSilenceOf(for_mix[st], base[st])

\* A direct call with variation and no copies has returned silence for a
\* base of one loud sample.
C5_Witness ==
    /\ pc = "returned"
    /\ num_copies = 0
    /\ add_variation
    /\ base_audio = << 30000 >>
    /\ result = << 0 >>

\* The positions of outputs that hold path.
Exports(path) == { i \in 1..Len(outputs) : outputs[i] = path }

\* The path of row i (below 100) for a population and a suffix.
ExpectedPath(i, p, suffix) ==
    [index |-> << i \div 10, i % 10 >>, pop |-> p, suffix |-> suffix]

\* C6: every row generate_audio_for_issue returned True for has exactly its
\* 6 outputs, each of {sci,pub} x {agree,disagree,both} exported once at the
\* path of the row's two-digit index; no path is exported twice.
C6_SixOutputsPerRecord ==
    /\ \A i, j \in 1..Len(outputs) : i # j => outputs[i] # outputs[j]
    /\ \A k \in 1..Len(returned) :
          returned[k] =>
              \A p \in Pops, suffix \in Suffixes :
                  Cardinality(Exports(ExpectedPath(k - 1, p, suffix))) = 1
    /\ \A i \in 1..Len(outputs) :
          \E k \in 0..index, p \in Pops, suffix \in Suffixes :
              outputs[i] = ExpectedPath(k, p, suffix)
    /\ pc = "done" =>
          Len(outputs) = 6 * Cardinality({ k \in 1..Len(returned) : returned[k] })

\* Two rows were processed, one of them with a count of 0: 12 outputs.
C6_Witness ==
    /\ pc = "done"
    /\ returned = << TRUE, TRUE >>
    /\ data[2] = Row(Pct(0), Pct(99))
    /\ Len(outputs) = 12

\* C7 as claimed: a row with a malformed numeric field never aborts the run.
C7_RunNeverAborted == pc # "aborted"

\* The number of rows generate_audio_for_issue returned True for.
Successes == Cardinality({ k \in 1..Len(returned) : returned[k] })

\* C8: a row generate_tts failed for has no output and is not counted; the
\* loop has gone on past it to the next row without aborting; success_count
\* is the number of rows that completed; and the final report is made after
\* every row was processed, with that count out of len(data).
C8_TtsFailureSkipsRecord ==
    /\ \A i \in tts_failed :
          /\ i < index
          /\ returned[i + 1] = FALSE
          /\ \A p \in Pops, suffix \in Suffixes :
                Exports(ExpectedPath(i, p, suffix)) = {}
    /\ success_count = Successes
    /\ Len(returned) = index
    /\ Len(outputs) >= 6 * Successes
    /\ pc = "done" =>
          /\ index = Len(data)
          /\ Len(outputs) = 6 * success_count

\* The first row's utterance failed, the second row completed, and 1/2 is
\* reported.
C8_Witness ==
    /\ pc = "done"
    /\ tts_failed = {0}
    /\ returned = << FALSE, TRUE >>
    /\ success_count = 1
    /\ Len(data) = 2

\* The calls of create_crowd_audio of population p's block: each stance with
\* a count above 0 once for its export, then once more for the mix.
CallsOfBlock(p) ==
    LET pass == << << "agree", counts[p].agree >>,
                   << "disagree", counts[p].disagree >> >>
        Called(c) == c[2] > 0
    IN  SelectSeq(pass \o pass, Called)

====
